---- MODULE Spec2Model ----
(***************************************************************************)
(* Session lifecycle engine (VerifierLogic) over the Redis storage adapter *)
(* (RedisDBAdapter) of @i-xor/nauth, and the fair per-id lock / store-wide *)
(* lock protocol of the adapter.                                           *)
(*                                                                         *)
(* Time is counted in seconds: every Date.now() of the code is `now`, and  *)
(* every millisecond quantity of the code is divided by 1000.              *)
(* Every `await` of a store round trip is one atomic step of a caller;     *)
(* the synchronous code between two awaits belongs to the step before it.  *)
(***************************************************************************)
EXTENDS Integers, Sequences, FiniteSets, TLC

(* ---------------- program constants (seconds) ---------------- *)
TokenTimeout == 259200
TokenRenew == 86400
TokenRenewCondition == 43200
GracePeriod == 86400
MinLead == 1800
DefaultExpire == 1296000
NoTTL == -1

(* ---------------- bounds of the model ---------------- *)
MaxTokens == 2
MaxTicks == 3
MaxRenew == 1
MaxCalls == 4
MaxClock == 8
MaxTickets == 3
LockTimeout == 2
InitNow == 1000

Ids == {"u1"}
Procs == {"p1", "p2"}
Tokens == 1..MaxTokens
(* the clock's advances: to the end of a session's lifetime, one second    *)
(* past it, then beyond the grace period of its keys                       *)
TickStep(k) == CASE k = 0 -> TokenTimeout [] k = 1 -> 1 [] OTHER -> 2 * GracePeriod

NoToken == 0
NoId == "none"
Null == <<>>
NaN == 0 - (1000 * DefaultExpire)

VARIABLES now, ticks, redis, tokCnt, calls, proc, hist,
          lclock, lstore, lcnt, lproc, lhist,
          events, pend, ecnt, batch,
          tstore, tres

(* the event channel: events is the sequence a subscriber has observed,   *)
(* pend[p] the event whose subject.next() caller p has still to run after *)
(* the await that precedes it, ecnt the number of events that became due, *)
(* batch the callers whose reply arrived while an event was pending       *)
evars == <<events, pend, ecnt, batch>>
(* the reverse index seen by engines of several types: tstore[t] is the   *)
(* value of the key NAUTH:LOGIN:{t}, tres the last loginID call           *)
tvars == <<tstore, tres>>
NoLookup == [type |-> "none", token |-> 0, res |-> <<>>]
svars == <<now, ticks, redis, tokCnt, calls, proc, hist, evars, tvars>>
lvars == <<lclock, lstore, lcnt, lproc, lhist>>
vars == <<svars, lvars>>

(* ======================= the keyed store ======================= *)
(* redis.hash[id]  the session hash  NAUTH:{id}        (field -> value)    *)
(* redis.ctx[id]   the context hash  NAUTH:{id}:CTX                        *)
(* redis.rev[t]    the string key    NAUTH:LOGIN:{t}   (value: the id)     *)
(* httl / cttl / rttl: the key's absolute expiry deadline, NoTTL if none.  *)
(* A hash with no field does not exist.                                    *)

HExists(r, id) == DOMAIN r.hash[id] # {}
CExists(r, id) == DOMAIN r.ctx[id] # {}
TExists(r, t) == t \in Tokens /\ r.rev[t] # NoId

DelH(r, id) == [r EXCEPT !.hash[id] = Null, !.httl[id] = NoTTL]
DelC(r, id) == [r EXCEPT !.ctx[id] = Null, !.cttl[id] = NoTTL]
DelT(r, t) == IF t \in Tokens THEN [r EXCEPT !.rev[t] = NoId, !.rttl[t] = NoTTL] ELSE r

HSet(r, id, vals) == [r EXCEPT !.hash[id] = vals @@ @]
SetT(r, t, id) == [r EXCEPT !.rev[t] = id, !.rttl[t] = NoTTL]

(* PEXPIRE key ms at time t: no key, nothing; ms <= 0 deletes the key. *)
PExpireH(r, id, ms, t) ==
  IF ~HExists(r, id) THEN r
  ELSE IF ms <= 0 THEN DelH(r, id) ELSE [r EXCEPT !.httl[id] = t + ms]
PExpireC(r, id, ms, t) ==
  IF ~CExists(r, id) THEN r
  ELSE IF ms <= 0 THEN DelC(r, id) ELSE [r EXCEPT !.cttl[id] = t + ms]
PExpireT(r, tk, ms, t) ==
  IF ~TExists(r, tk) THEN r
  ELSE IF ms <= 0 THEN DelT(r, tk) ELSE [r EXCEPT !.rttl[tk] = t + ms]

PersistH(r, id) == [r EXCEPT !.httl[id] = NoTTL]
PersistC(r, id) == [r EXCEPT !.cttl[id] = NoTTL]
PersistT(r, tk) == IF tk \in Tokens THEN [r EXCEPT !.rttl[tk] = NoTTL] ELSE r

(* The store's own expiry: a key whose deadline has passed is gone. *)
Due(d, t) == d # NoTTL /\ t > d
ExpireKeys(r, t) ==
  [hash |-> [i \in Ids |-> IF Due(r.httl[i], t) THEN Null ELSE r.hash[i]],
   httl |-> [i \in Ids |-> IF Due(r.httl[i], t) THEN NoTTL ELSE r.httl[i]],
   ctx  |-> [i \in Ids |-> IF Due(r.cttl[i], t) THEN Null ELSE r.ctx[i]],
   cttl |-> [i \in Ids |-> IF Due(r.cttl[i], t) THEN NoTTL ELSE r.cttl[i]],
   rev  |-> [k \in Tokens |-> IF Due(r.rttl[k], t) THEN NoId ELSE r.rev[k]],
   rttl |-> [k \in Tokens |-> IF Due(r.rttl[k], t) THEN NoTTL ELSE r.rttl[k]]]

(* ======================= UserDO ======================= *)
(* new UserDO(key, TYPE, token, expire) *)
NewUser(tk, expire) ==
  [token |-> tk, expireTime |-> expire, renewCount |-> 0, disabled |-> FALSE,
   duration |-> 0, kicked |-> FALSE, permanent |-> FALSE]

(* UserDO.checkNewUser: TRUE when the record is accepted *)
CheckNewUser(u, t) == ~(u.expireTime < t) /\ ~(u.expireTime - t < MinLead)

Fld(h, f, dflt) == IF f \in DOMAIN h THEN h[f] ELSE dflt

(* UserDO.convert of HGETALL's reply; a missing number is NaN, a missing  *)
(* flag is false, a missing expireTime takes the constructor's default.   *)
Convert(h, t) ==
  [token |-> Fld(h, "token", NoToken),
   expireTime |-> Fld(h, "expireTime", DefaultExpire + t),
   renewCount |-> Fld(h, "renewCount", NaN),
   disabled |-> Fld(h, "disabled", FALSE),
   duration |-> Fld(h, "duration", NaN),
   kicked |-> Fld(h, "kicked", FALSE),
   permanent |-> Fld(h, "permanent", FALSE)]

(* RedisDBAdapter.find *)
Find(r, id, t) == IF HExists(r, id) THEN Convert(r.hash[id], t) ELSE Null

(* RedisDBAdapter.key: the reverse lookup of a token *)
Key(r, tk) == IF TExists(r, tk) THEN r.rev[tk] ELSE NoId

(* save with a hash write that keeps the fields already stored *)
SaveExecKeep(r, id, u, t) ==
  LET keyExpire == u.expireTime + GracePeriod - t
      r1 == [r EXCEPT !.hash[id] = @ @@ u]
      r2 == IF u.permanent THEN r1 ELSE PExpireH(r1, id, keyExpire, t)
      r3 == SetT(r2, u.token, id)
  IN IF u.permanent THEN r3 ELSE PExpireT(r3, u.token, keyExpire, t)

(* RedisDBAdapter.save: the MULTI of save, for a record without ctx *)
SaveExec(r, id, u, t) ==
  LET keyExpire == u.expireTime + GracePeriod - t
      r1 == HSet(r, id, u)
      r2 == IF u.permanent THEN r1 ELSE PExpireH(r1, id, keyExpire, t)
      r3 == SetT(r2, u.token, id)
  IN IF u.permanent THEN r3 ELSE PExpireT(r3, u.token, keyExpire, t)

(* ======================= callers ======================= *)
(* One record per caller: pc is the await it is suspended at ("idle": no   *)
(* call in progress, res is the outcome of its last call), the rest are    *)
(* the locals of the call in progress.                                     *)
IdleProc ==
  [pc |-> "idle", op |-> "none", id |-> NoId, res |-> "none", tok |-> NoToken,
   reason |-> "none", phase |-> "cl",
   vals |-> Null, dbTok |-> NoToken, ke1 |-> 0, has1 |-> FALSE,
   ke2 |-> 0, has2 |-> FALSE, arg |-> 0]

Start(op, id) == [IdleProc EXCEPT !.op = op, !.id = id]
Goto(pr, lbl) == [pr EXCEPT !.pc = lbl]
(* the call returns or throws: res is "ok" or the error's code / class *)
Finish(pr, result) ==
  [IdleProc EXCEPT !.op = pr.op, !.id = pr.id, !.res = result, !.tok = pr.tok]

(* checkLogin returns to the call that made it *)
ClOk(pr) ==
  CASE pr.op = "logout" -> Goto(pr, "lo_find")
    [] pr.op = "isLogin" -> Finish(pr, "true")
    [] pr.op = "checkDisable" -> Goto([pr EXCEPT !.phase = "cd"], "cd_find")
    [] OTHER -> Finish(pr, "ok")

(* an isLogin that lets the NotLoginException of checkLogin through *)
ClThrowRaw(pr, code) ==
  IF pr.op = "logout" THEN Finish(pr, "ok") ELSE Finish(pr, code)
(* checkLogin throws NotLoginException(code): isLogin (logout) turns it    *)
(* into false, and logout then does nothing.                               *)
ClThrow(pr, code) ==
  IF pr.op = "logout" THEN Finish(pr, "ok")
  ELSE IF pr.op = "isLogin" THEN Finish(pr, "false")
  ELSE Finish(pr, code)

(* update returns to the call that made it *)
UpdOk(pr) ==
  IF pr.op \in {"checkLogin", "logout", "checkDisable", "isLogin"} /\ pr.phase = "cl"
  THEN ClOk(pr) ELSE Finish(pr, "ok")

Add(a, b) == IF a = NaN THEN NaN ELSE a + b

(* a renew test that skips the records whose expireTime has passed *)
NeedRenewUnexpired(u, t) ==
  u.expireTime - t < TokenRenewCondition /\ ~(u.expireTime < t)

(* VerifierLogic.needRenew *)
NeedRenew(u, t) == u.expireTime - t < TokenRenewCondition

(* VerifierLogic.checkLogin, first await: db.exists *)
ClExistsStep(pr, r) ==
  IF HExists(r, pr.id) THEN Goto(pr, "cl_find") ELSE ClThrow(pr, "NOT_LOGIN")

(* checkLogin with an expiry test that ignores the permanent flag *)
ClFindStepNoPermanent(pr, r, t) ==
  LET u == Find(r, pr.id, t)
  IN IF u = Null THEN ClThrow(pr, "NOT_LOGIN")
     ELSE IF u.kicked THEN Goto(pr, "cl_kfind")
     ELSE IF u.expireTime < t
          THEN Goto([pr EXCEPT !.reason = "LOGIN_EXPIRED"], "cln_exists")
     ELSE IF NeedRenew(u, t) THEN Goto(pr, "rn_find")
     ELSE ClOk(pr)

(* checkLogin with the expiry test before the kicked test *)
ClFindStepExpiryFirst(pr, r, t) ==
  LET u == Find(r, pr.id, t)
  IN IF u = Null THEN ClThrow(pr, "NOT_LOGIN")
     ELSE IF u.expireTime < t /\ ~u.permanent
          THEN Goto([pr EXCEPT !.reason = "LOGIN_EXPIRED"], "cln_exists")
     ELSE IF u.kicked THEN Goto(pr, "cl_kfind")
     ELSE IF NeedRenew(u, t) THEN Goto(pr, "rn_find")
     ELSE ClOk(pr)

(* VerifierLogic.checkLogin, second await: db.find, then the branch *)
ClFindStep(pr, r, t) ==
  LET u == Find(r, pr.id, t)
  IN IF u = Null THEN ClThrow(pr, "NOT_LOGIN")
     ELSE IF u.kicked THEN Goto(pr, "cl_kfind")
     ELSE IF u.expireTime < t /\ ~u.permanent
          THEN Goto([pr EXCEPT !.reason = "LOGIN_EXPIRED"], "cln_exists")
     ELSE IF NeedRenew(u, t) THEN Goto(pr, "rn_find")
     ELSE ClOk(pr)

(* VerifierLogic.cleanLogin, first await: db.exists *)
ClnExistsStep(pr, r) ==
  IF HExists(r, pr.id) THEN Goto(pr, "cln_del")
  ELSE IF pr.reason = "none" THEN Finish(pr, "ok")
  ELSE ClThrow(pr, pr.reason)

(* a delete that does not look at DEL's reply *)
DeleteOkAlways(r, id) == TRUE
(* RedisDBAdapter.delete: DEL of the session hash; TRUE when it removed it *)
DeleteOk(r, id) == HExists(r, id)
DeleteExec(r, id) == DelH(r, id)

(* VerifierLogic.renew, first await: db.find *)
RnFindStep(pr, r, t) ==
  LET u == Find(r, pr.id, t)
  IN IF u = Null
     THEN (IF pr.op = "renew" THEN Finish(pr, "NOT_LOGIN")
           ELSE ClThrow(pr, "NOT_LOGIN"))
     ELSE Goto([pr EXCEPT !.vals = [u EXCEPT
                    !.renewCount = Add(u.renewCount, 1),
                    !.expireTime = u.expireTime + TokenRenew]], "upd_find")

(* an update that goes on to write when the record does not exist *)
UpdFindStepUpsert(pr, vals, r, t) ==
  LET db == Find(r, pr.id, t)
      q == [pr EXCEPT !.vals = vals, !.dbTok = IF db = Null THEN NoToken ELSE db.token]
  IN IF db = Null THEN Goto(q, "upd_exec")
     ELSE IF "permanent" \in DOMAIN vals
          THEN Goto([q EXCEPT !.ke1 = IF vals.permanent THEN 0
                                      ELSE db.expireTime + GracePeriod - t],
                    "upd_ctx1")
     ELSE IF "expireTime" \in DOMAIN vals
          THEN Goto([q EXCEPT !.ke2 = vals.expireTime + GracePeriod - t], "upd_ctx2")
     ELSE Goto(q, "upd_exec")

(* RedisDBAdapter.update, first await: find, then the TTL commands queued *)
UpdFindStep(pr, vals, r, t) ==
  LET db == Find(r, pr.id, t)
      q == [pr EXCEPT !.vals = vals, !.dbTok = IF db = Null THEN NoToken ELSE db.token]
  IN IF db = Null THEN Finish(pr, "StorageError")
     ELSE IF "permanent" \in DOMAIN vals
          THEN Goto([q EXCEPT !.ke1 = IF vals.permanent THEN 0
                                      ELSE db.expireTime + GracePeriod - t],
                    "upd_ctx1")
     ELSE IF "expireTime" \in DOMAIN vals
          THEN Goto([q EXCEPT !.ke2 = vals.expireTime + GracePeriod - t], "upd_ctx2")
     ELSE Goto(q, "upd_exec")

(* RedisDBAdapter.update: exists(ctxKey) of the permanent branch *)
UpdCtx1Step(pr, r, t) ==
  LET q == [pr EXCEPT !.has1 = CExists(r, pr.id)]
  IN IF "expireTime" \in DOMAIN pr.vals
     THEN Goto([q EXCEPT !.ke2 = pr.vals.expireTime + GracePeriod - t], "upd_ctx2")
     ELSE Goto(q, "upd_exec")

(* RedisDBAdapter.update: exists(ctxKey) of the expireTime branch *)
UpdCtx2Step(pr, r) == Goto([pr EXCEPT !.has2 = CExists(r, pr.id)], "upd_exec")

(* RedisDBAdapter.update: the MULTI, run at time t *)
UpdateExec(r, pr, t) ==
  LET id == pr.id
      v == pr.vals
      ra == IF "permanent" \in DOMAIN v
            THEN IF v.permanent
                 THEN LET a == PersistT(PersistH(r, id), pr.dbTok)
                      IN IF pr.has1 THEN PersistC(a, id) ELSE a
                 ELSE LET a == PExpireT(PExpireH(r, id, pr.ke1, t), pr.dbTok, pr.ke1, t)
                      IN IF pr.has1 THEN PExpireC(a, id, pr.ke1, t) ELSE a
            ELSE r
      rb == IF "expireTime" \in DOMAIN v
            THEN LET a == PExpireT(PExpireH(ra, id, pr.ke2, t), pr.dbTok, pr.ke2, t)
                 IN IF pr.has2 THEN PExpireC(a, id, pr.ke2, t) ELSE a
            ELSE ra
  IN HSet(rb, id, v)

(* a ban test that takes the deadline 0 for a ban still running *)
CdFindStepZeroBanned(pr, r, t) ==
  LET u == Find(r, pr.id, t)
  IN IF u = Null THEN Finish(pr, "TypeError")
     ELSE IF ~u.disabled THEN Finish(pr, "ok")
     ELSE IF u.duration = -1 THEN Finish(pr, "BANNED")
     ELSE IF ~(u.duration > t) /\ u.duration # 0
          THEN Goto([pr EXCEPT !.vals = [disabled |-> FALSE, duration |-> 0]],
                    "upd_find")
     ELSE Finish(pr, "SHORT_BAN")

(* VerifierLogic.checkDisable after checkLogin: db.find, then the ban test *)
CdFindStep(pr, r, t) ==
  LET u == Find(r, pr.id, t)
  IN IF u = Null THEN Finish(pr, "TypeError")
     ELSE IF ~u.disabled THEN Finish(pr, "ok")
     ELSE IF u.duration = -1 THEN Finish(pr, "BANNED")
     ELSE IF ~(u.duration > t) \/ u.duration = 0
          THEN Goto([pr EXCEPT !.vals = [disabled |-> FALSE, duration |-> 0]],
                    "upd_find")
     ELSE Finish(pr, "SHORT_BAN")

(* ======================= events ======================= *)
(* an event on the subject: its type, and for the record of the order of  *)
(* the store operations seq, the ordinal of the step that made it due,    *)
(* and own, whether that step changed the store                           *)
NoEvent == [type |-> "none", seq |-> 0, own |-> FALSE]
(* an emitter that also publishes when the mutation before it has failed *)
EmittedAlways(old, new) ==
  IF new.pc # "idle" THEN "none"
  ELSE IF old.pc \in {"cln_exists", "cln_del"} /\ old.reason = "KICKED_OUT"
       THEN "KICKOUT_FEEDBACK"
  ELSE IF old.pc \in {"cln_exists", "cln_del"} /\ old.reason = "LOGIN_EXPIRED"
       THEN "EXPIRED"
  ELSE IF new.op = "login" THEN "LOGIN"
  ELSE IF old.op = "logout" /\ old.pc = "lo_del" THEN "LOGOUT"
  ELSE IF new.op = "kickout" THEN "KICKOUT"
  ELSE "none"
(* an emitter that publishes LOGOUT whenever a logout ends *)
EmittedLogoutAlways(old, new) ==
  IF new.pc = "idle" /\ new.op = "logout" THEN "LOGOUT" ELSE EmittedAlways(old, new)
(* The subject.next() that follows the await completed by the step of a   *)
(* caller from old to new: login after save, logout after delete, kickout *)
(* after update, checkLogin after cleanLogin on a kicked or expired       *)
(* record; an await that throws is followed by none.                      *)
Emitted(old, new) ==
  IF new.pc # "idle" \/ new.res \in {"StorageError", "Error"} THEN "none"
  ELSE IF old.pc \in {"cln_exists", "cln_del"} /\ old.reason = "KICKED_OUT"
       THEN "KICKOUT_FEEDBACK"
  ELSE IF old.pc \in {"cln_exists", "cln_del"} /\ old.reason = "LOGIN_EXPIRED"
       THEN "EXPIRED"
  ELSE IF old.pc = "idle" /\ new.op = "login" THEN "LOGIN"
  ELSE IF old.op = "logout" /\ old.pc = "lo_del" THEN "LOGOUT"
  ELSE IF old.op = "kickout" /\ old.pc = "upd_exec" THEN "KICKOUT"
  ELSE IF old.pc = "idle" /\ new.op = "offlineFull" THEN "OFFLINE_ALL"
  ELSE "none"

(* ======================= history ======================= *)
(* hist records what has happened; no step of the program reads it.        *)
(*  kick  ids whose kickout has returned, with no login or kickout since   *)
(*  sk    callers whose checkLogin in progress (or last) began in `kick`   *)
(*  kfb   per id, the checkLogin calls of `sk` that failed with KICKED_OUT *)
(*  ban   ids whose disable(id, -1) has returned on a stored record, with  *)
(*        no enable, login or removal of the record since                  *)
(*  cb    callers whose checkDisable in progress (or last) began with its  *)
(*        id in `ban`, the id having stayed in `ban` since                 *)
(*  off   ids whose record was stored when an offlineFull that has        *)
(*        returned deleted the keys, with no login since                  *)
(*  oc    callers whose checkLogin in progress (or last) began with its   *)
(*        id in `off`, no login of the id having returned since           *)
(*  imm   a login and the checkLogin that immediately follows it:          *)
(*        st 1 the login has returned, 2 its caller's checkLogin is in     *)
(*        progress, 3 that checkLogin has returned, and nothing else has   *)
(*        happened in between                                              *)
(*        was: the login replaced a record that was kicked, banned,       *)
(*        permanent or renewed                                            *)
NoImm == [st |-> 0, p |-> "none", id |-> NoId, tok |-> NoToken, was |-> FALSE]
NoHist == [kick |-> {}, sk |-> {}, kfb |-> [i \in Ids |-> 0], ban |-> {},
           cb |-> {}, imm |-> NoImm, off |-> {}, oc |-> {}]

Ghost(h, p, old, new, r, r2) ==
  LET began == old.pc = "idle"
      ended == new.pc = "idle"
      id == new.id
      done(op) == ended /\ new.op = op /\ new.res = "ok"
      sk1 == IF began
             THEN (IF id \in h.kick /\ new.op = "checkLogin"
                   THEN h.sk \cup {p} ELSE h.sk \ {p})
             ELSE h.sk
      fb == ended /\ new.op = "checkLogin" /\ new.res = "KICKED_OUT" /\ p \in sk1
      kfb1 == IF fb /\ h.kfb[id] < 2 THEN [h.kfb EXCEPT ![id] = @ + 1] ELSE h.kfb
      kicked == done("kickout") /\ HExists(r, id)
      imm1 == IF done("login")
              THEN [st |-> 1, p |-> p, id |-> id, tok |-> new.tok,
                    was |-> /\ HExists(r, id)
                            /\ \/ Find(r, id, 0).kicked \/ Find(r, id, 0).disabled
                               \/ Find(r, id, 0).permanent
                               \/ Find(r, id, 0).renewCount # 0]
              ELSE IF /\ h.imm.p = p /\ h.imm.id = id /\ new.op = "checkLogin"
                      /\ \/ h.imm.st = 1 /\ began
                         \/ h.imm.st = 2 /\ ~began
                   THEN [h.imm EXCEPT !.st = IF ended THEN 3 ELSE 2]
                   ELSE NoImm
      ban1 == IF done("disable") /\ HExists(r, id) THEN h.ban \cup {id}
              ELSE IF done("enable") \/ done("login") THEN h.ban \ {id}
              ELSE h.ban
      ban2 == {i \in ban1 : HExists(r2, i)}
      cb1 == IF began
             THEN (IF id \in h.ban /\ new.op = "checkDisable"
                   THEN h.cb \cup {p} ELSE h.cb \ {p})
             ELSE h.cb
      off1 == IF done("offlineFull") THEN h.off \cup {i \in Ids : HExists(r, i)}
              ELSE IF done("login") THEN h.off \ {id} ELSE h.off
      oc1 == IF began
             THEN (IF id \in h.off /\ new.op = "checkLogin"
                   THEN h.oc \cup {p} ELSE h.oc \ {p})
             ELSE h.oc
  IN [kick |-> IF kicked THEN h.kick \cup {id}
               ELSE IF done("login") THEN h.kick \ {id} ELSE h.kick,
      sk |-> IF kicked \/ done("login")
             THEN {q \in sk1 : proc[q].id # id} ELSE sk1,
      kfb |-> IF kicked \/ done("login") THEN [kfb1 EXCEPT ![id] = 0] ELSE kfb1,
      ban |-> ban2,
      cb |-> {q \in cb1 : (IF q = p THEN id ELSE proc[q].id) \in (h.ban \cap ban2)},
      imm |-> imm1,
      off |-> off1,
      oc |-> IF done("login") THEN {q \in oc1 : proc[q].id # id} ELSE oc1]

Idle(p) == proc[p].pc = "idle"
At(p, lbl) == proc[p].pc = lbl
Reads(p, pr) == /\ proc' = [proc EXCEPT ![p] = pr]
                /\ calls' = IF Idle(p) THEN calls + 1 ELSE calls
                /\ hist' = Ghost(hist, p, proc[p], pr, redis, redis)
                /\ UNCHANGED <<now, ticks, redis, tokCnt, lvars, tvars>>
Writes(p, pr, r) == /\ proc' = [proc EXCEPT ![p] = pr]
                    /\ redis' = r
                    /\ hist' = Ghost(hist, p, proc[p], pr, redis, r)
                    /\ UNCHANGED <<now, ticks, tokCnt, calls, lvars, tvars>>

(* Time passes; the store drops the keys whose deadline has passed. *)
TickBy(dt) ==
  /\ ticks < MaxTicks
  /\ now' = now + dt
  /\ redis' = ExpireKeys(redis, now + dt)
  /\ ticks' = ticks + 1
  /\ hist' = [hist EXCEPT !.imm = NoImm,
                           !.ban = {i \in @ : HExists(redis', i)},
                           !.cb = {q \in @ : HExists(redis', proc[q].id)}]
  /\ UNCHANGED <<tokCnt, calls, proc, lvars, tvars>>
Tick == TickBy(TickStep(ticks)) /\ UNCHANGED evars

(* VerifierLogic.login *)
Login(p, id) ==
  /\ Idle(p)
  /\ tokCnt < MaxTokens
  /\ LET tk == tokCnt + 1
         u == NewUser(tk, now + TokenTimeout)
     IN IF CheckNewUser(u, now)
        THEN /\ redis' = SaveExec(redis, id, u, now)
             /\ proc' = [proc EXCEPT ![p] =
                           Finish([Start("login", id) EXCEPT !.tok = tk], "ok")]
        ELSE /\ redis' = redis
             /\ proc' = [proc EXCEPT ![p] = Finish(Start("login", id), "Error")]
  /\ tokCnt' = tokCnt + 1
  /\ calls' = calls + 1
  /\ hist' = Ghost(hist, p, proc[p], proc'[p], redis, redis')
  /\ UNCHANGED <<now, ticks, lvars, tvars>>

(* ---- calls: the call and its first await ---- *)
CheckLogin(p, id) == Idle(p) /\ Reads(p, ClExistsStep(Start("checkLogin", id), redis))
Logout(p, id) == Idle(p) /\ Reads(p, ClExistsStep(Start("logout", id), redis))
(* VerifierLogic.isLogin: checkLogin inside try / catch *)
IsLogin(p, id) == Idle(p) /\ Reads(p, ClExistsStep(Start("isLogin", id), redis))
CheckDisable(p, id) == Idle(p) /\ Reads(p, ClExistsStep(Start("checkDisable", id), redis))
CleanLogin(p, id) == Idle(p) /\ Reads(p, ClnExistsStep(Start("cleanLogin", id), redis))
Renew(p, id) ==
  /\ Idle(p)
  /\ Fld(redis.hash[id], "renewCount", 0) < MaxRenew
  /\ Reads(p, RnFindStep(Start("renew", id), redis, now))
Kickout(p, id) ==
  Idle(p) /\ Reads(p, UpdFindStep(Start("kickout", id), [kicked |-> TRUE], redis, now))
(* disable's conversion of its duration, `duration *= 1000 + Date.now()`:  *)
(* d times (1000 + now) milliseconds, here in seconds                     *)
Duration(d, t) == IF d # -1 /\ d # 0 THEN d * (1 + t) ELSE d
(* VerifierLogic.disable; arg keeps the requested duration during the call *)
Disable(p, id, d) ==
  Idle(p) /\ Reads(p, UpdFindStep([Start("disable", id) EXCEPT !.arg = d],
                        [disabled |-> TRUE, duration |-> Duration(d, now)], redis, now))
Enable(p, id) ==
  Idle(p) /\ Reads(p, UpdFindStep(Start("enable", id),
                        [disabled |-> FALSE, duration |-> 0], redis, now))
Permanent(p, id) ==
  Idle(p) /\ Reads(p, UpdFindStep(Start("permanent", id), [permanent |-> TRUE], redis, now))
NonPermanent(p, id) ==
  Idle(p) /\ Reads(p, UpdFindStep(Start("nonPermanent", id), [permanent |-> FALSE], redis, now))

(* ---- the later awaits of a call in progress ---- *)
ClFind(p) == At(p, "cl_find") /\ Reads(p, ClFindStep(proc[p], redis, now))
(* checkLogin, kicked branch: the second find (the event's payload) *)
ClKickedFind(p) ==
  At(p, "cl_kfind") /\ Reads(p, Goto([proc[p] EXCEPT !.reason = "KICKED_OUT"], "cln_exists"))
ClnExists(p) == At(p, "cln_exists") /\ Reads(p, ClnExistsStep(proc[p], redis))
(* cleanLogin's delete; checkLogin then publishes and throws its reason *)
ClnDel(p) ==
  /\ At(p, "cln_del")
  /\ IF DeleteOk(redis, proc[p].id)
     THEN Writes(p, IF proc[p].reason = "none" THEN Finish(proc[p], "ok")
                    ELSE ClThrow(proc[p], proc[p].reason),
                 DeleteExec(redis, proc[p].id))
     ELSE Reads(p, Finish(proc[p], "StorageError"))
RnFind(p) == At(p, "rn_find") /\ Reads(p, RnFindStep(proc[p], redis, now))
UpdFind(p) == At(p, "upd_find") /\ Reads(p, UpdFindStep(proc[p], proc[p].vals, redis, now))
UpdCtx1(p) == At(p, "upd_ctx1") /\ Reads(p, UpdCtx1Step(proc[p], redis, now))
UpdCtx2(p) == At(p, "upd_ctx2") /\ Reads(p, UpdCtx2Step(proc[p], redis))
UpdExec(p) == At(p, "upd_exec") /\ Writes(p, UpdOk(proc[p]), UpdateExec(redis, proc[p], now))
(* logout after isLogin: db.find (the event's payload), then db.delete *)
LoFind(p) == At(p, "lo_find") /\ Reads(p, Goto(proc[p], "lo_del"))
LoDel(p) ==
  /\ At(p, "lo_del")
  /\ IF DeleteOk(redis, proc[p].id)
     THEN Writes(p, Finish(proc[p], "ok"), DeleteExec(redis, proc[p].id))
     ELSE Reads(p, Finish(proc[p], "StorageError"))
CdFind(p) == At(p, "cd_find") /\ Reads(p, CdFindStep(proc[p], redis, now))

Call(p) ==
  /\ calls < MaxCalls
  /\ UNCHANGED evars
  /\ \E id \in Ids :
       \/ Login(p, id)
       \/ CheckLogin(p, id)
       \/ Logout(p, id)
       \/ CheckDisable(p, id)
       \/ CleanLogin(p, id)
       \/ Renew(p, id)
       \/ Kickout(p, id)
       \/ Disable(p, id, -1)
       \/ Enable(p, id)
       \/ Permanent(p, id)
       \/ NonPermanent(p, id)

Step(p) ==
  /\ UNCHANGED evars
  /\ \/ ClFind(p) \/ ClKickedFind(p) \/ ClnExists(p) \/ ClnDel(p)
     \/ RnFind(p) \/ UpdFind(p) \/ UpdCtx1(p) \/ UpdCtx2(p) \/ UpdExec(p)
     \/ LoFind(p) \/ LoDel(p) \/ CdFind(p)

Next ==
  \/ Tick
  \/ \E p \in Procs : Call(p)
  \/ \E p \in Procs : Step(p)

(* ======================= the locks ======================= *)
(* The adapter's locking code: per id a wait queue NAUTH:{id}:fair and a   *)
(* lock key NAUTH:{id}:lock, and the store-wide key NAUTH:FULL:LOCK.       *)
(* lclock counts poll intervals.  lstore.queue[id] is the wait queue,      *)
(* lstore.lock[id] the lock key (val: the ticket it holds, 0 when the key  *)
(* is absent; dl: the instant its expiry removes it), lstore.full the      *)
(* store-wide key (val: its holder's mark).                                *)
NoTicket == 0
NoKey == [val |-> NoTicket, dl |-> 0]
PollInterval == 1
(* the acquire timeout of the callers: above N x lockTimeout *)
AcquireTimeout == Cardinality(Procs) * LockTimeout + 1

IdleLock == [pc |-> "idle", op |-> "none", id |-> NoId, res |-> "none",
             ticket |-> NoTicket, start |-> 0, wake |-> 0]
LFinish(pr, result) == [IdleLock EXCEPT !.op = pr.op, !.id = pr.id, !.res = result]

KeyExists(k) == k.val # NoTicket
(* a SET NX that overwrites a key already set *)
SetNxOkAlways(k) == TRUE

(* SET key value NX PX timeout, at time t: TRUE when the key was absent *)
SetNxOk(k) == ~KeyExists(k)
SetNx(k, v, timeout, t) == IF KeyExists(k) THEN k ELSE [val |-> v, dl |-> t + timeout]
(* the expiry of a key *)
ExpireKey(k, t) == IF KeyExists(k) /\ t >= k.dl THEN NoKey ELSE k

(* a ticket that joins the head of the wait queue *)
EnqueueAtHead(q, tk) == <<tk>> \o q
(* a poll that does not look at the head of the queue *)
AtHeadAlways(q, tk) == q # <<>>
(* a check that never sees the store-wide key *)
CheckFullLockNever(l) == FALSE
(* acquireLock, step 1: the ticket joins the tail of the wait queue *)
Enqueue(q, tk) == Append(q, tk)
(* acquireLock, step 2: the head of the queue is this ticket *)
AtHead(q, tk) == q # <<>> /\ Head(q) = tk
(* releaseLock: the batch deletes the lock key and pops the queue's head *)
ReleaseExec(l, id) ==
  [l EXCEPT !.lock[id] = NoKey,
            !.queue[id] = IF @ = <<>> THEN @ ELSE Tail(@)]
(* checkFullLock: EXISTS of the store-wide key *)
CheckFullLock(l) == KeyExists(l.full)
(* deleteFull: every key under the prefix is deleted *)
Wipe(r) ==
  [hash |-> [i \in Ids |-> Null], httl |-> [i \in Ids |-> NoTTL],
   ctx  |-> [i \in Ids |-> Null], cttl |-> [i \in Ids |-> NoTTL],
   rev  |-> [k \in Tokens |-> NoId], rttl |-> [k \in Tokens |-> NoTTL]]

(* lhist: enq[id] the tickets of id in the order they joined the queue,    *)
(* granted the tickets that acquired the lock, done those whose holder     *)
(* released it, fn the callers whose protected function has run in the     *)
(* call in progress (or the last), late the callers whose autoLock in      *)
(* progress (or last) began when a holder of its id had crashed and the    *)
(* lock key of the id had expired.                                         *)
NoLHist == [enq |-> [i \in Ids |-> <<>>], granted |-> {}, done |-> {}, fn |-> {},
            late |-> {}]

LInit ==
  /\ lclock = 0
  /\ lstore = [queue |-> [i \in Ids |-> <<>>], lock |-> [i \in Ids |-> NoKey],
               full |-> NoKey]
  /\ lcnt = 0
  /\ lproc = [p \in Procs |-> IdleLock]
  /\ lhist = NoLHist

Init ==
  /\ now = InitNow
  /\ ticks = 0
  /\ redis = [hash |-> [i \in Ids |-> Null], httl |-> [i \in Ids |-> NoTTL],
              ctx |-> [i \in Ids |-> Null], cttl |-> [i \in Ids |-> NoTTL],
              rev |-> [k \in Tokens |-> NoId], rttl |-> [k \in Tokens |-> NoTTL]]
  /\ tokCnt = 0
  /\ calls = 0
  /\ proc = [p \in Procs |-> IdleProc]
  /\ hist = NoHist
  /\ events = <<>>
  /\ pend = [p \in Procs |-> NoEvent]
  /\ ecnt = 0
  /\ batch = {}
  /\ tstore = [k \in Tokens |-> <<>>]
  /\ tres = NoLookup
  /\ LInit

LIdle(p) == lproc[p].pc = "idle"
LAt(p, lbl) == lproc[p].pc = lbl
LSet(p, pr) == lproc' = [lproc EXCEPT ![p] = pr]
(* an acquire loop that never gives up *)
TimedOutNever(pr, t) == FALSE
(* the acquire loop gives up once acquireTimeout has passed *)
TimedOut(pr, t) == t - pr.start >= AcquireTimeout
Retry(pr, t) == [pr EXCEPT !.wake = t + PollInterval]

(* A caller whose next store round trip is due: round trips are short     *)
(* against the poll interval, so time passes only while every caller is   *)
(* idle, asleep between two polls, or inside a protected function or a    *)
(* scan, which may take any time.                                         *)
Due1(pr, t) ==
  \/ pr.pc \in {"enq", "setnx", "rel", "df_rel", "rel_err", "df_rel_err"}
  \/ pr.pc \in {"head", "df_poll"} /\ t >= pr.wake

(* A poll interval passes; the keys whose expiry is due are removed. *)
LTick ==
  /\ lclock < MaxClock
  /\ \A p \in Procs : ~Due1(lproc[p], lclock)
  /\ lclock' = lclock + 1
  /\ lstore' = [lstore EXCEPT
                  !.lock = [i \in Ids |-> ExpireKey(lstore.lock[i], lclock + 1)],
                  !.full = ExpireKey(lstore.full, lclock + 1)]
  /\ UNCHANGED <<lcnt, lproc, lhist, svars>>

(* autoLock(id, fn): the store-wide lock is checked first *)
AutoLock(p, id) ==
  /\ LIdle(p)
  /\ lcnt < MaxTickets
  /\ LSet(p, IF CheckFullLock(lstore)
             THEN LFinish([IdleLock EXCEPT !.op = "autoLock", !.id = id], "SYSTEM_MUTEX")
             ELSE [IdleLock EXCEPT !.op = "autoLock", !.id = id, !.pc = "enq"])
  /\ lhist' = [lhist EXCEPT
                 !.fn = @ \ {p},
                 !.late = IF /\ \E q \in Procs : lproc[q].pc = "crashed" /\ lproc[q].id = id
                             /\ ~KeyExists(lstore.lock[id])
                          THEN @ \cup {p} ELSE @ \ {p}]
  /\ UNCHANGED <<lclock, lstore, lcnt, svars>>

(* acquireLock: a new ticket is appended to the wait queue *)
LockEnqueue(p) ==
  /\ LAt(p, "enq")
  /\ lcnt' = lcnt + 1
  /\ lstore' = [lstore EXCEPT !.queue[lproc[p].id] = Enqueue(@, lcnt + 1)]
  /\ LSet(p, [lproc[p] EXCEPT !.pc = "head", !.ticket = lcnt + 1,
                              !.start = lclock, !.wake = lclock])
  /\ lhist' = [lhist EXCEPT !.enq[lproc[p].id] = Append(@, lcnt + 1)]
  /\ UNCHANGED <<lclock, svars>>

(* acquireLock: one poll reads the head of the queue *)
LockPollHead(p) ==
  /\ LAt(p, "head")
  /\ lclock >= lproc[p].wake
  /\ LSet(p, IF TimedOut(lproc[p], lclock) THEN LFinish(lproc[p], "LOCK_TIMEOUT")
             ELSE IF AtHead(lstore.queue[lproc[p].id], lproc[p].ticket)
                  THEN [lproc[p] EXCEPT !.pc = "setnx"]
             ELSE Retry(lproc[p], lclock))
  /\ UNCHANGED <<lclock, lstore, lcnt, lhist, svars>>

(* acquireLock: at the head, the lock key is set if absent *)
LockPollSet(p) ==
  /\ LAt(p, "setnx")
  /\ LET id == lproc[p].id
     IN IF SetNxOk(lstore.lock[id])
        THEN /\ lstore' = [lstore EXCEPT !.lock[id] =
                             SetNx(@, lproc[p].ticket, LockTimeout, lclock)]
             /\ LSet(p, [lproc[p] EXCEPT !.pc = "fn"])
             /\ lhist' = [lhist EXCEPT !.granted = @ \cup {lproc[p].ticket}]
        ELSE /\ LSet(p, [Retry(lproc[p], lclock) EXCEPT !.pc = "head"])
             /\ UNCHANGED <<lstore, lhist>>
  /\ UNCHANGED <<lclock, lcnt, svars>>

(* autoLock: the protected function runs to its end *)
LockFn(p) ==
  /\ LAt(p, "fn")
  /\ LSet(p, [lproc[p] EXCEPT !.pc = "rel"])
  /\ lhist' = [lhist EXCEPT !.fn = @ \cup {p}]
  /\ UNCHANGED <<lclock, lstore, lcnt, svars>>

(* the holder's process dies inside the protected function: it never     *)
(* releases, and it makes no further call                                 *)
LockCrash(p) ==
  /\ LAt(p, "fn")
  /\ LSet(p, [lproc[p] EXCEPT !.pc = "crashed"])
  /\ UNCHANGED <<lclock, lstore, lcnt, lhist, svars>>

(* releaseLock, in autoLock's finally *)
LockRelease(p) ==
  /\ LAt(p, "rel")
  /\ lstore' = ReleaseExec(lstore, lproc[p].id)
  /\ LSet(p, LFinish(lproc[p], "ok"))
  /\ lhist' = [lhist EXCEPT !.done = @ \cup {lproc[p].ticket}]
  /\ UNCHANGED <<lclock, lcnt, svars>>

(* deleteFull: acquireFullLock's loop, one SET NX PX per poll *)
FullAcquire(p, pr) ==
  IF SetNxOk(lstore.full)
  THEN /\ lstore' = [lstore EXCEPT !.full = SetNx(@, 1, LockTimeout, lclock)]
       /\ LSet(p, [pr EXCEPT !.pc = "df_scan"])
  ELSE /\ LSet(p, [Retry(pr, lclock) EXCEPT !.pc = "df_poll"])
       /\ UNCHANGED lstore
DeleteFull(p) ==
  /\ LIdle(p)
  /\ FullAcquire(p, [IdleLock EXCEPT !.op = "deleteFull", !.start = lclock])
  /\ UNCHANGED <<lclock, lcnt, lhist, svars>>
FullPoll(p) ==
  /\ LAt(p, "df_poll")
  /\ lclock >= lproc[p].wake
  /\ IF TimedOut(lproc[p], lclock)
     THEN LSet(p, LFinish(lproc[p], "LOCK_TIMEOUT")) /\ UNCHANGED lstore
     ELSE FullAcquire(p, lproc[p])
  /\ UNCHANGED <<lclock, lcnt, lhist, svars>>
(* deleteFull: the keys under the prefix are enumerated and deleted *)
FullScan(p) ==
  /\ LAt(p, "df_scan")
  /\ redis' = Wipe(redis)
  /\ LSet(p, [lproc[p] EXCEPT !.pc = "df_rel"])
  /\ UNCHANGED <<now, ticks, tokCnt, calls, proc, hist, evars, tvars,
                 lclock, lstore, lcnt, lhist>>
(* deleteFull: the store-wide lock is released in finally *)
FullRelease(p) ==
  /\ LAt(p, "df_rel")
  /\ lstore' = [lstore EXCEPT !.full = NoKey]
  /\ LSet(p, LFinish(lproc[p], "ok"))
  /\ UNCHANGED <<lclock, lcnt, lhist, svars>>

LNext ==
  \/ LTick
  \/ \E p \in Procs, id \in Ids : AutoLock(p, id)
  \/ \E p \in Procs : LockEnqueue(p) \/ LockPollHead(p) \/ LockPollSet(p)
                        \/ LockFn(p) \/ LockCrash(p) \/ LockRelease(p)
  \/ \E p \in Procs : DeleteFull(p) \/ FullPoll(p) \/ FullScan(p) \/ FullRelease(p)

(* ---- the exits by exception of autoLock and deleteFull ---- *)
(* a finally that leaves the lock in place *)
FinallySkip(l, id) == l
FinallyFullSkip(l) == l
(* the releases made in finally: releaseLock, and the DEL of the          *)
(* store-wide key                                                         *)
FinallyRelease(l, id) == ReleaseExec(l, id)
FinallyFullRelease(l) == [l EXCEPT !.full = NoKey]
(* autoLock: the protected function throws *)
LockFnThrows(p) ==
  /\ LAt(p, "fn")
  /\ LSet(p, [lproc[p] EXCEPT !.pc = "rel_err"])
  /\ lhist' = [lhist EXCEPT !.fn = @ \cup {p}]
  /\ UNCHANGED <<lclock, lstore, lcnt, svars>>
(* autoLock's finally after the throw: the lock is released and the error *)
(* of the function leaves autoLock                                        *)
LockReleaseErr(p) ==
  /\ LAt(p, "rel_err")
  /\ lstore' = FinallyRelease(lstore, lproc[p].id)
  /\ LSet(p, LFinish(lproc[p], "FnError"))
  /\ lhist' = [lhist EXCEPT !.done = @ \cup {lproc[p].ticket}]
  /\ UNCHANGED <<lclock, lcnt, svars>>
(* deleteFull: the enumeration or a deletion throws; what it had deleted  *)
(* is not modelled, the store is left as it was                           *)
FullScanThrows(p) ==
  /\ LAt(p, "df_scan")
  /\ LSet(p, [lproc[p] EXCEPT !.pc = "df_rel_err"])
  /\ UNCHANGED <<lclock, lstore, lcnt, lhist, svars>>
FullReleaseErr(p) ==
  /\ LAt(p, "df_rel_err")
  /\ lstore' = FinallyFullRelease(lstore)
  /\ LSet(p, LFinish(lproc[p], "StorageError"))
  /\ UNCHANGED <<lclock, lcnt, lhist, svars>>
ThrowNext ==
  \/ LNext
  \/ (\E p \in Procs : LockFnThrows(p))
  \/ (\E p \in Procs : LockReleaseErr(p))
  \/ (\E p \in Procs : FullScanThrows(p))
  \/ (\E p \in Procs : FullReleaseErr(p))

(* ---- the context map of a principal ---- *)
CtxKeys == {"k1", "k2"}
CtxVals == {"a", "b"}

(* a context call: one command to the store, then the call returns; the   *)
(* caller's record keeps the arguments and the ordinal of the call        *)
CtxCall(p, op, id, args, r) ==
  /\ Idle(p)
  /\ redis' = r
  /\ calls' = calls + 1
  /\ proc' = [proc EXCEPT ![p] =
                [Finish(Start(op, id), "ok") EXCEPT !.vals = args @@ [n |-> calls + 1]]]
  /\ hist' = Ghost(hist, p, proc[p], proc'[p], redis, redis')
  /\ UNCHANGED <<now, ticks, tokCnt, lvars, tvars>>

(* a del that removes the whole context *)
CtxDelAll(r, id, k) == DelC(r, id)
(* RedisDBAdapter.ctx: HGETALL of the context hash *)
Ctx(r, id) == r.ctx[id]
(* RedisDBAdapter.set: HSET of one field; a new key has no TTL *)
CtxSetExec(r, id, k, v) == [r EXCEPT !.ctx[id] = (k :> v) @@ @]
(* RedisDBAdapter.del: HDEL of one field; a hash left empty is removed *)
CtxDelExec(r, id, k) ==
  LET rest == DOMAIN r.ctx[id] \ {k}
  IN IF rest = {} THEN DelC(r, id)
     ELSE [r EXCEPT !.ctx[id] = [x \in rest |-> r.ctx[id][x]]]
(* RedisDBAdapter.clear: DEL of the context hash *)
CtxClearExec(r, id) == DelC(r, id)

(* VerifierLogic.set / del / clear *)
CtxSet(p, id, k, v) ==
  CtxCall(p, "set", id, [key |-> k, value |-> v], CtxSetExec(redis, id, k, v))
CtxDel(p, id, k) == CtxCall(p, "del", id, [key |-> k], CtxDelExec(redis, id, k))
CtxClear(p, id) == CtxCall(p, "clear", id, Null, CtxClearExec(redis, id))

(* callers that log in and work on the context map, while time passes *)
CtxCalls(p) ==
  /\ calls < MaxCalls
  /\ UNCHANGED evars
  /\ \E id \in Ids :
       \/ Login(p, id)
       \/ \E k \in CtxKeys, v \in CtxVals : CtxSet(p, id, k, v)
       \/ \E k \in CtxKeys : CtxDel(p, id, k)
       \/ CtxClear(p, id)
CtxNext == Tick \/ \E p \in Procs : CtxCalls(p)

(* ---- bans: callers that log in, ban, lift bans and check them, while   *)
(* the clock advances second by second ----                               *)
BanDurations == {-1, 0, 1, 2}
BanTick == TickBy(1) /\ UNCHANGED evars
BanCall(p) ==
  /\ calls < MaxCalls
  /\ UNCHANGED evars
  /\ \E id \in Ids :
       \/ Login(p, id)
       \/ \E d \in BanDurations : Disable(p, id, d)
       \/ Enable(p, id)
       \/ CheckDisable(p, id)
BanStep(p) == UNCHANGED evars /\ (ClFind(p) \/ CdFind(p) \/ UpdFind(p) \/ UpdExec(p))
BanNext == BanTick \/ (\E p \in Procs : BanCall(p)) \/ (\E p \in Procs : BanStep(p))

(* ---- the event channel: callers that log in, log out, kick out and     *)
(* check, each publishing in the continuation of its last await ----      *)
(* the step of caller p makes an event due, or none *)
Pending == {q \in Procs : pend[q] # NoEvent}
(* The replies that arrive before a pending continuation has run are      *)
(* handled in one turn of the event loop with it: a caller takes one step *)
(* while an event is pending, and its next command waits for that turn.   *)
Ready(p) == pend[p] = NoEvent /\ p \notin batch
Pends(p) ==
  LET t == Emitted(proc[p], proc'[p])
  IN /\ batch' = IF Pending # {} THEN batch \cup {p} ELSE batch
     /\ UNCHANGED events
     /\ IF t = "none" THEN UNCHANGED <<pend, ecnt>>
        ELSE /\ pend' = [pend EXCEPT ![p] =
                           [type |-> t, seq |-> ecnt + 1,
                            own |-> proc[p].pc # "cln_exists"]]
             /\ ecnt' = ecnt + 1
(* the awaits between the store's reply and the subject.next() *)
Path(type) ==
  CASE type \in {"LOGIN", "KICKOUT"} -> "exec"
    [] type = "LOGOUT" -> "delete"
    [] OTHER -> "cleanLogin"
(* Continuations run in the order of the replies when they are equally    *)
(* many awaits away from the reply; logout's is one await nearer to DEL's *)
(* reply than checkLogin's; between a MULTI/EXEC and a DEL the order is   *)
(* the client library's.                                                  *)
Overtakes(later, earlier) ==
  \/ Path(later) = "delete" /\ Path(earlier) = "cleanLogin"
  \/ Path(later) = "exec" /\ Path(earlier) # "exec"
  \/ Path(later) # "exec" /\ Path(earlier) = "exec"
(* subject.next(): the subscriber observes the event; the call returns *)
Publish(p) ==
  /\ pend[p] # NoEvent
  /\ \A q \in Pending :
       pend[q].seq < pend[p].seq => Overtakes(pend[p].type, pend[q].type)
  /\ events' = Append(events, pend[p])
  /\ pend' = [pend EXCEPT ![p] = NoEvent]
  /\ batch' = IF Pending = {p} THEN {} ELSE batch
  /\ UNCHANGED <<now, ticks, redis, tokCnt, calls, proc, hist, ecnt, lvars, tvars>>
EvTick == Pending = {} /\ TickBy(TickStep(ticks)) /\ UNCHANGED evars
EvCall(p) ==
  /\ Ready(p)
  /\ calls < MaxCalls
  /\ \E id \in Ids :
       Login(p, id) \/ Logout(p, id) \/ Kickout(p, id) \/ CheckLogin(p, id)
  /\ Pends(p)
EvStep(p) ==
  /\ Ready(p)
  /\ \/ ClFind(p) \/ ClKickedFind(p) \/ ClnExists(p) \/ ClnDel(p)
     \/ RnFind(p) \/ UpdFind(p) \/ UpdCtx1(p) \/ UpdCtx2(p) \/ UpdExec(p)
     \/ LoFind(p) \/ LoDel(p)
  /\ Pends(p)
EvNext ==
  \/ EvTick
  \/ \E p \in Procs : EvCall(p)
  \/ \E p \in Procs : EvStep(p)
  \/ \E p \in Procs : Publish(p)

(* ---- isLogin: callers that log in, ask isLogin, kick out and clean up  *)
(* while time passes ----                                                 *)
IsCall(p) ==
  /\ calls < MaxCalls
  /\ UNCHANGED evars
  /\ \E id \in Ids :
       Login(p, id) \/ IsLogin(p, id) \/ Kickout(p, id) \/ CleanLogin(p, id)
IsStep(p) ==
  /\ UNCHANGED evars
  /\ \/ ClFind(p) \/ ClKickedFind(p) \/ ClnExists(p) \/ ClnDel(p)
     \/ RnFind(p) \/ UpdFind(p) \/ UpdCtx1(p) \/ UpdCtx2(p) \/ UpdExec(p)
IsNext == Tick \/ (\E p \in Procs : IsCall(p)) \/ (\E p \in Procs : IsStep(p))
(* ======================= offlineFull ======================= *)
(* VerifierLogic.offlineFull: `await this.db.deleteFull(TYPE_LOGIN)`, then *)
(* the OFFLINE_ALL event.  deleteFull is one step here: the store-wide    *)
(* lock it takes is read by no session operation of the adapter.          *)
OfflineFull(p) ==
  /\ Idle(p)
  /\ calls < MaxCalls
  /\ calls' = calls + 1
  /\ proc' = [proc EXCEPT ![p] = Finish(Start("offlineFull", NoId), "ok")]
  /\ redis' = Wipe(redis)
  /\ hist' = Ghost(hist, p, proc[p], proc'[p], redis, redis')
  /\ UNCHANGED <<now, ticks, tokCnt, lvars, tvars, evars>>
OffCall(p) ==
  /\ calls < MaxCalls
  /\ \E id \in Ids : \/ Login(p, id) \/ CheckLogin(p, id) \/ Enable(p, id)
                      \/ Kickout(p, id)
  /\ UNCHANGED evars
OffStep(p) ==
  /\ \/ ClFind(p) \/ ClKickedFind(p) \/ ClnExists(p) \/ ClnDel(p)
     \/ UpdFind(p) \/ UpdCtx1(p) \/ UpdCtx2(p) \/ UpdExec(p)
  /\ UNCHANGED evars
OffNext ==
  \/ (\E p \in Procs : OffCall(p))
  \/ (\E p \in Procs : OfflineFull(p))
  \/ (\E p \in Procs : OffStep(p))

(* ======================= engines of several types ======================= *)
Types == {"USER", "ADMIN"}
TypeIds == {"u1", "u2"}
(* the id an engine of type T hands to the adapter: `${TYPE}_LOGIN:${id}`, *)
(* as its segments between the colons                                     *)
TypedId(T, id) == <<T \o "_LOGIN", id>>
(* RedisDBAdapter.save: multi.set(NAUTH:LOGIN:{token}, id) *)
SaveRev(ts, tk, key) == [ts EXCEPT ![tk] = key]
(* RedisDBAdapter.key(token): GET NAUTH:LOGIN:{token}; the type that      *)
(* loginID passes as second argument is no parameter of the method        *)
TypedKey(ts, tk) == IF ts[tk] = <<>> THEN <<>> ELSE <<"NAUTH">> \o ts[tk]
(* VerifierLogic.loginID: key.split(':').slice(2).join(':'), null as <<>> *)
LoginID(ts, tk, T) ==
  LET key == TypedKey(ts, tk)
  IN IF key = <<>> THEN <<>> ELSE SubSeq(key, 3, Len(key))
(* login on the engine of type T *)
TypedLogin(T, id) ==
  /\ tokCnt < MaxTokens
  /\ tokCnt' = tokCnt + 1
  /\ tstore' = SaveRev(tstore, tokCnt + 1, TypedId(T, id))
  /\ UNCHANGED <<now, ticks, redis, calls, proc, hist, evars, tres, lvars>>
(* loginID(token) on the engine of type T *)
TypedLoginID(T, tk) ==
  /\ calls < MaxCalls
  /\ calls' = calls + 1
  /\ tres' = [type |-> T, token |-> tk, res |-> LoginID(tstore, tk, T)]
  /\ UNCHANGED <<now, ticks, redis, tokCnt, proc, hist, evars, tstore, lvars>>
TypeNext ==
  \/ (\E T \in Types, id \in TypeIds : TypedLogin(T, id))
  \/ (\E T \in Types, tk \in Tokens : TypedLoginID(T, tk))


Spec == Init /\ [][Next]_vars
LockSpec == Init /\ [][LNext]_vars
CtxSpec == Init /\ [][CtxNext]_vars
BanSpec == Init /\ [][BanNext]_vars
EventSpec == Init /\ [][EvNext]_vars
IsSpec == Init /\ [][IsNext]_vars

OffSpec == Init /\ [][OffNext]_vars

ThrowSpec == Init /\ [][ThrowNext]_vars

TypeSpec == Init /\ [][TypeNext]_vars

(* ======================= properties ======================= *)

(* C1: after a kickout of a logged-in id has returned, and with no login   *)
(* of the id since, at most one of the checkLogin calls begun afterwards   *)
(* fails with KICKED_OUT (the others fail with NOT_LOGIN), whether the     *)
(* calls run one after the other or interleaved.                           *)
C1_OneKickedOut == \A i \in Ids : hist.kfb[i] <= 1

(* The record a checkLogin suspended at its find is about to read. *)
Reading(p) == Find(redis, proc[p].id, now)
Moves(p) == proc'[p] # proc[p]
ReadsAtFind(p) ==
  /\ proc[p].op = "checkLogin" /\ proc[p].pc = "cl_find" /\ Moves(p)
  /\ Reading(p) # Null

(* C2 (as stated): a checkLogin that reads a non-permanent record whose    *)
(* expireTime is before now takes the expiry failure (LOGIN_EXPIRED).      *)
C2_ExpiredAlwaysExpired ==
  [][\A p \in Procs :
       (ReadsAtFind(p) /\ ~Reading(p).permanent /\ Reading(p).expireTime < now)
         => proc'[p].reason = "LOGIN_EXPIRED"]_vars

(* what C2 (amended) asks of one step of caller p *)
C2Step(p) ==
  LET old == proc[p]
      new == proc'[p]
      u == Reading(p)
  IN /\ (ReadsAtFind(p) /\ ~u.kicked /\ ~u.permanent /\ u.expireTime < now)
          => (new.pc = "cln_exists" /\ new.reason = "LOGIN_EXPIRED")
     /\ (ReadsAtFind(p) /\ ~u.kicked /\ u.permanent)
          => /\ new.reason = "none"
             /\ new.pc \in {"idle", "rn_find"}
             /\ new.pc = "idle" => new.res = "ok"
     /\ (old.op = "checkLogin" /\ old.reason = "LOGIN_EXPIRED" /\ new.pc = "idle")
          => /\ new.res \in {"LOGIN_EXPIRED", "StorageError"}
             /\ ~HExists(redis', old.id)
     /\ (old.op = "checkLogin" /\ old.pc # "idle" /\ old.reason = "none" /\ Moves(p))
          => /\ new.res # "LOGIN_EXPIRED"
             /\ HExists(redis, old.id) => HExists(redis', old.id)
(* C2 (amended): a checkLogin that reads a record that is not kicked:      *)
(* if the record is not permanent and its expireTime is before now, the    *)
(* call goes on to clean up and fails with LOGIN_EXPIRED, or with the      *)
(* storage error of a failed delete, and when it fails the session record  *)
(* is absent; if the record is permanent, the call never fails with        *)
(* LOGIN_EXPIRED however far in the past expireTime is, and no step of it  *)
(* removes the session record.                                             *)
C2_ExpiryUnlessPermanent == [][\A p \in Procs : C2Step(p)]_vars
C2_Witness ==
  \E p \in Procs :
    /\ proc[p].pc = "idle" /\ proc[p].op = "checkLogin"
    /\ proc[p].res = "LOGIN_EXPIRED"
    /\ ~HExists(redis, proc[p].id)

(* C3: the reverse entry of a token names an id exactly when the session   *)
(* record of that id is stored and holds that token.                       *)
C3_DualIndex ==
  \A t \in Tokens, i \in Ids :
    (redis.rev[t] = i) <=> (HExists(redis, i) /\ Fld(redis.hash[i], "token", NoToken) = t)

(* C4: whatever was stored before, when login(id) is immediately followed  *)
(* by checkLogin(id), the checkLogin succeeds and the stored record of id  *)
(* holds the token the login returned.                                     *)
C4_LoginThenCheck ==
  hist.imm.st = 3 =>
    /\ proc[hist.imm.p].res = "ok"
    /\ Find(redis, hist.imm.id, now) # Null
    /\ Find(redis, hist.imm.id, now).token = hist.imm.tok
C4_Witness ==
  /\ hist.imm.st = 3
  /\ hist.imm.tok > 1
  /\ proc[hist.imm.p].op = "checkLogin" /\ proc[hist.imm.p].res = "ok"

(* C5: once disable(id, -1) has returned, and until an enable (or a login  *)
(* or the removal of the record), no checkDisable begun since succeeds.    *)
C5_BannedUntilEnable ==
  \A p \in hist.cb : proc[p].pc = "idle" => proc[p].res # "ok"
(* a caller is in its critical section: from its SET NX to its release *)
Holding(p) == lproc[p].pc \in {"fn", "rel"}

C8_NoAcquireTimeout ==
  \A p \in Procs : ~(lproc[p].op = "autoLock" /\ lproc[p].res = "LOCK_TIMEOUT")

(* C9: a deleteFull that holds the store-wide lock and a caller that holds *)
(* the lock of an id are never in progress at the same time.               *)
C9_BulkExcludesPerId ==
  \A p, q \in Procs :
    ~ /\ lproc[p].pc \in {"df_scan", "df_rel"} /\ KeyExists(lstore.full)
      /\ Holding(q) /\ KeyExists(lstore.lock[lproc[q].id])

(* C10: an autoLock called while the store-wide lock is held fails at once *)
(* with SYSTEM_MUTEX: no ticket is queued, no lock key is set and the      *)
(* protected function does not run.                                        *)
C10_FailFast ==
  [][\A p \in Procs :
       (LIdle(p) /\ lproc'[p] # lproc[p] /\ lproc'[p].op = "autoLock"
          /\ KeyExists(lstore.full))
         => /\ lproc'[p].pc = "idle" /\ lproc'[p].res = "SYSTEM_MUTEX"
            /\ lstore' = lstore
            /\ p \notin lhist'.fn]_vars
C10_Witness ==
  \E p, q \in Procs :
    /\ lproc[p].op = "autoLock" /\ lproc[p].res = "SYSTEM_MUTEX"
    /\ lproc[q].pc \in {"df_scan", "df_rel"} /\ KeyExists(lstore.full)

(* a caller is in acquireLock's poll loop *)
Polling(p) == lproc[p].pc \in {"head", "setnx"}

(* C11: no acquireLock attempt is still polling once acquireTimeout has    *)
(* elapsed since it began: by then it holds the lock or has failed with    *)
(* LOCK_TIMEOUT, also when the lock is never released.                     *)
C11_AcquireTerminates ==
  \A p \in Procs : Polling(p) => lclock - lproc[p].start <= AcquireTimeout
C11_Witness ==
  \E p, q \in Procs :
    /\ lproc[p].op = "autoLock" /\ lproc[p].res = "LOCK_TIMEOUT"
    /\ lproc[q].pc \in {"fn", "crashed"} /\ lproc[q].id = lproc[p].id

Destroys(p) ==
  /\ proc[p].pc \in {"lo_del", "cln_del"}
  /\ proc'[p].pc = "idle"
  /\ HExists(redis, proc[p].id) /\ ~HExists(redis', proc[p].id)

(* C13: a step that destroys the session of an id (logout's delete,        *)
(* cleanLogin's delete, checkLogin's cleanup) leaves neither the session   *)
(* record nor the reverse entry of its token nor the context hash.         *)
C13_DestroyRemovesAll ==
  [][\A p \in Procs :
       Destroys(p) =>
         /\ Find(redis', proc[p].id, now') = Null
         /\ Key(redis', Fld(redis.hash[proc[p].id], "token", NoToken)) = NoId
         /\ ~CExists(redis', proc[p].id)]_vars

(* caller p makes a context call in this step *)
CtxActs(p, op) ==
  /\ proc'[p].op = op /\ proc'[p] # proc[p]
  /\ "n" \in DOMAIN proc'[p].vals
(* every field of the context of id other than k is as it was *)
CtxOthersKept(id, k) ==
  \A x \in (DOMAIN Ctx(redis, id) \cup DOMAIN Ctx(redis', id)) \ {k} :
    /\ x \in DOMAIN Ctx(redis, id) /\ x \in DOMAIN Ctx(redis', id)
    /\ Ctx(redis', id)[x] = Ctx(redis, id)[x]

(* C14: set(id, k, v) leaves the context of id with k -> v, del(id, k)     *)
(* removes k, both keep every other field of the context, clear(id)        *)
(* leaves the context empty, and none of the three changes a field of a    *)
(* session record.                                                         *)
C14_ContextIsolation ==
  [][\A p \in Procs :
       LET id == proc'[p].id
           a == proc'[p].vals
       IN /\ CtxActs(p, "set") =>
               /\ a.key \in DOMAIN Ctx(redis', id) /\ Ctx(redis', id)[a.key] = a.value
               /\ CtxOthersKept(id, a.key)
               /\ redis'.hash = redis.hash
          /\ CtxActs(p, "del") =>
               /\ a.key \notin DOMAIN Ctx(redis', id)
               /\ CtxOthersKept(id, a.key)
               /\ redis'.hash = redis.hash
          /\ CtxActs(p, "clear") =>
               /\ DOMAIN Ctx(redis', id) = {}
               /\ redis'.hash = redis.hash]_vars
C14_Witness ==
  \E p \in Procs :
    /\ proc[p].op = "del" /\ proc[p].res = "ok"
    /\ proc[p].vals.key \notin DOMAIN Ctx(redis, proc[p].id)
    /\ DOMAIN Ctx(redis, proc[p].id) # {}
    /\ HExists(redis, proc[p].id)

(* C15: disable(id, d) with a positive d hands to the store, and the store *)
(* then holds, the deadline now + d (now being the time of the call).      *)
C15_DisableDeadline ==
  [][\A p \in Procs :
       /\ (Idle(p) /\ proc'[p].op = "disable" /\ proc'[p].pc = "upd_exec"
             /\ proc'[p].arg > 0)
            => proc'[p].vals.duration = now + proc'[p].arg
       /\ (proc[p].op = "disable" /\ proc[p].pc = "upd_exec" /\ proc'[p].pc = "idle")
            => Find(redis', proc[p].id, now').duration = proc[p].vals.duration]_vars

(* caller p's checkDisable reads the record of its id in this step *)
ReadsBan(p) ==
  /\ proc[p].op = "checkDisable" /\ proc[p].pc = "cd_find" /\ Moves(p)
  /\ Reading(p) # Null /\ Reading(p).disabled
(* caller p's checkDisable is lifting a ban it found lapsed *)
Lifting(p) ==
  /\ proc[p].op = "checkDisable" /\ proc[p].phase = "cd"
  /\ proc[p].pc \in {"upd_find", "upd_exec"}
(* what C16 asks of one step of caller p *)
C16Step(p) ==
  LET u == Reading(p)
      new == proc'[p]
  IN /\ (ReadsBan(p) /\ (u.duration = 0 \/ (0 < u.duration /\ u.duration <= now)))
          => /\ new.pc = "upd_find"
             /\ new.vals = [disabled |-> FALSE, duration |-> 0]
             /\ redis' = redis
     /\ (Lifting(p) /\ Moves(p) /\ new.pc = "idle")
          => /\ new.res = "ok"
             /\ ~Find(redis', new.id, now').disabled
             /\ Find(redis', new.id, now').duration = 0
     /\ (ReadsBan(p) /\ u.duration > now)
          => /\ new.pc = "idle" /\ new.res = "SHORT_BAN"
             /\ redis' = redis

NotLoggedInStep(p) ==
  /\ Moves(p)
  /\ \/ proc[p].op = "logout" /\ proc[p].pc \in {"cl_kfind", "cln_exists", "cln_del"}
     \/ proc[p].op = "logout" /\ proc[p].pc = "cl_find" /\ proc'[p].pc = "idle"
     \/ proc[p].pc = "idle" /\ proc'[p].op = "logout" /\ proc'[p].pc = "idle"

(* C17 (as stated): no step of a logout on the path where isLogin is false *)
(* changes the store or makes an event due.                                *)
C17_LogoutNoOp ==
  [][\A p \in Procs :
       NotLoggedInStep(p) => (redis' = redis /\ pend'[p] = NoEvent)]_vars

(* what C17 (amended) asks of one step of caller p *)
C17Step(p) ==
  LET old == proc[p]
      id == proc'[p].id
      fb == IF old.reason = "KICKED_OUT" THEN "KICKOUT_FEEDBACK" ELSE "EXPIRED"
  IN /\ NotLoggedInStep(p) =>
          /\ pend'[p].type # "LOGOUT"
          /\ \/ redis' = redis /\ pend'[p] = NoEvent
             \/ /\ old.pc = "cln_exists" /\ ~HExists(redis, id)
                /\ redis' = redis /\ pend'[p].type = fb
             \/ /\ old.pc = "cln_del" /\ HExists(redis, id) /\ ~HExists(redis', id)
                /\ redis'.rev = redis.rev /\ redis'.ctx = redis.ctx
                /\ pend'[p].type = fb
     /\ (old.pc = "idle" /\ Moves(p) /\ proc'[p].op = "logout" /\ ~HExists(redis, id))
          => (proc'[p].pc = "idle" /\ redis' = redis /\ pend'[p] = NoEvent)
(* C17 (amended): a logout of an id that has no session record changes no  *)
(* key and publishes no event; a logout of an id whose record is kicked or *)
(* expired publishes no LOGOUT and makes no delete of its own, and what it *)
(* changes is the lazy cleanup of the checkLogin inside isLogin: the       *)
(* session record is deleted and KICKOUT_FEEDBACK or EXPIRED is published. *)
C17_LogoutNotLoggedIn == [][\A p \in Procs : C17Step(p)]_vars
C17_Witness ==
  \E p \in Procs :
    /\ proc[p].op = "logout" /\ proc[p].pc = "idle"
    /\ pend[p].type = "KICKOUT_FEEDBACK" /\ pend[p].own
    /\ ~HExists(redis, proc[p].id)

(* what C18 asks of one step of caller p *)
C18Step(p) ==
  LET id == proc'[p].id
      t == pend'[p].type
  IN /\ (pend'[p] # pend[p] /\ pend'[p] # NoEvent) =>
          /\ t = "LOGIN" =>
               (HExists(redis', id) /\ Find(redis', id, now').token = proc'[p].tok)
          /\ t = "LOGOUT" => (HExists(redis, id) /\ ~HExists(redis', id))
          /\ t = "KICKOUT" => (HExists(redis', id) /\ Find(redis', id, now').kicked)
          /\ t \in {"KICKOUT_FEEDBACK", "EXPIRED"} => ~HExists(redis', id)
          /\ events' = events
     /\ (Moves(p) /\ proc'[p].pc = "idle" /\ proc'[p].res \in {"StorageError", "Error"})
          => (pend'[p] = NoEvent /\ events' = events)
C19_EventsInCommitOrder ==
  \A i, j \in 1..Len(events) :
    (i < j /\ events[i].own /\ events[j].own) => events[i].seq < events[j].seq

(* C20: when login(id) has returned, whatever record of id was stored      *)
(* before, the stored record holds the token the login returned and is     *)
(* fresh: not kicked, not disabled, deadline 0, not permanent, never       *)
(* renewed.                                                                *)
C20_LoginOverwrites ==
  hist.imm.st = 1 =>
    LET u == Find(redis, hist.imm.id, now)
    IN /\ u # Null
       /\ u.token = hist.imm.tok
       /\ ~u.kicked /\ ~u.disabled /\ u.duration = 0
       /\ ~u.permanent /\ u.renewCount = 0
C20_Witness == hist.imm.st = 1 /\ hist.imm.was /\ hist.imm.tok > 1

(* the operations that are one update of the record *)
UpdateOps == {"kickout", "disable", "enable", "permanent", "nonPermanent"}
(* caller p's update reads the record of its id in this step: the first    *)
(* step of a call that is one update, or the find of an update in progress *)
UpdateReads(p) ==
  /\ Moves(p)
  /\ \/ proc[p].pc = "idle" /\ proc'[p].op \in UpdateOps
     \/ proc[p].pc = "upd_find"

(* C21: an update that finds no session record of its id, in kickout,      *)
(* disable, enable, permanent, nonPermanent or any other call, ends the    *)
(* call with StorageError, writes nothing and is followed by no event.     *)
C21_UpdateMissingFails ==
  [][\A p \in Procs :
       (UpdateReads(p) /\ Find(redis, proc'[p].id, now) = Null)
         => /\ proc'[p].pc = "idle" /\ proc'[p].res = "StorageError"
            /\ redis' = redis
            /\ Emitted(proc[p], proc'[p]) = "none"
            /\ events' = events /\ pend' = pend]_vars
C21_Witness ==
  \E p \in Procs :
    /\ proc[p].pc = "idle" /\ proc[p].op \in UpdateOps
    /\ proc[p].res = "StorageError"
    /\ ~HExists(redis, proc[p].id)

(* the update of caller p's renew (called directly or inside checkLogin)   *)
(* commits in this step, on the stored record of the session it read       *)
RenewCommits(p) ==
  /\ proc[p].pc = "upd_exec" /\ Moves(p)
  /\ "renewCount" \in DOMAIN proc[p].vals
  /\ HExists(redis, proc[p].id)
  /\ Reading(p).token = proc[p].vals.token /\ Reading(p).token # NoToken

(* C22: the commit of a renew leaves the stored renewCount of the session  *)
(* one higher and its stored expireTime tokenRenew later than they were.   *)
C22_RenewAddsOne ==
  [][\A p \in Procs :
       RenewCommits(p) =>
         /\ Find(redis', proc[p].id, now').renewCount = Reading(p).renewCount + 1
         /\ Find(redis', proc[p].id, now').expireTime
              = Reading(p).expireTime + TokenRenew]_vars

(* the codes of NotLoginException that checkLogin throws *)
NotLoginCodes == {"NOT_LOGIN", "KICKED_OUT", "LOGIN_EXPIRED"}
(* what the step of a call at pr.pc makes of the caller's record *)
CheckLoginStep(pr, r, t) ==
  CASE pr.pc = "cl_find" -> ClFindStep(pr, r, t)
    [] pr.pc = "cl_kfind" -> Goto([pr EXCEPT !.reason = "KICKED_OUT"], "cln_exists")
    [] pr.pc = "cln_exists" -> ClnExistsStep(pr, r)
    [] pr.pc = "cln_del" -> IF DeleteOk(r, pr.id) THEN ClThrow(pr, pr.reason)
                            ELSE Finish(pr, "StorageError")
    [] pr.pc = "rn_find" -> RnFindStep(pr, r, t)
    [] pr.pc = "upd_find" -> UpdFindStep(pr, pr.vals, r, t)
    [] pr.pc = "upd_ctx1" -> UpdCtx1Step(pr, r, t)
    [] pr.pc = "upd_ctx2" -> UpdCtx2Step(pr, r)
    [] pr.pc = "upd_exec" -> UpdOk(pr)
    [] OTHER -> ClExistsStep(Start("checkLogin", pr.id), r)
(* what isLogin returns for the outcome of its checkLogin *)
IsLoginResult(res) ==
  CASE res = "ok" -> "true"
    [] res \in NotLoginCodes -> "false"
    [] OTHER -> res

(* C23: every step of an isLogin is the step a checkLogin makes at the     *)
(* same point, and isLogin returns true where that checkLogin returns,     *)
(* false where it throws a NotLoginException (not found, kicked, expired)  *)
(* and throws the same error where it throws any other.                    *)
C23_IsLoginFollowsCheckLogin ==
  [][\A p \in Procs :
       (Moves(p) /\ proc'[p].op = "isLogin"
          /\ (proc[p].pc = "idle" \/ proc[p].op = "isLogin"))
         => LET c == CheckLoginStep([proc[p] EXCEPT !.op = "checkLogin",
                                                    !.id = proc'[p].id], redis, now)
            IN IF c.pc # "idle" THEN proc'[p] = [c EXCEPT !.op = "isLogin"]
               ELSE /\ proc'[p].pc = "idle"
                    /\ proc'[p].res = IsLoginResult(c.res)]_vars
C23_Witness ==
  \E p, q \in Procs :
    /\ proc[p].pc = "idle" /\ proc[p].op = "isLogin" /\ proc[p].res = "StorageError"
    /\ proc[q].pc = "idle" /\ proc[q].op = "isLogin" /\ proc[q].res = "false"

(* the results of a call that are a return or a typed exception with a code *)
TypedResults ==
  {"none", "ok"} \cup NotLoginCodes \cup {"BANNED", "SHORT_BAN", "StorageError"}

(* C24: a checkLogin or checkDisable that has ended has returned or has    *)
(* thrown a typed exception that carries a code.                           *)
C24_TypedFailures ==
  \A p \in Procs :
    (proc[p].pc = "idle" /\ proc[p].op \in {"checkLogin", "checkDisable"})
      => proc[p].res \in TypedResults

(* the cleanup delete of caller p's checkLogin runs in this step and finds *)
(* no record to delete                                                     *)
CleanupFails(p) ==
  /\ proc[p].op = "checkLogin" /\ proc[p].pc = "cln_del" /\ Moves(p)
  /\ proc[p].reason \in {"KICKED_OUT", "LOGIN_EXPIRED"}
  /\ ~HExists(redis, proc[p].id)

(* C25: a checkLogin whose cleanup delete of a kicked or expired record    *)
(* fails ends with StorageError, not with a NotLoginException, and is      *)
(* followed by no event.                                                   *)
C25_CleanupFailureSurfaces ==
  [][\A p \in Procs :
       CleanupFails(p) =>
         /\ proc'[p].pc = "idle" /\ proc'[p].res = "StorageError"
         /\ Emitted(proc[p], proc'[p]) = "none"
         /\ redis' = redis]_vars
C25_Witness ==
  \E p \in Procs :
    /\ proc[p].pc = "idle" /\ proc[p].op = "checkLogin"
    /\ proc[p].res = "StorageError"
    /\ proc[p].id \in hist.kick /\ ~HExists(redis, proc[p].id)

(* C26: when offlineFull has returned, checkLogin of an id whose record   *)
(* it deleted fails with a NotLoginException until the id logs in again.  *)
C26_OfflineAllLogsOut ==
  \A p \in hist.oc :
    proc[p].pc = "idle" => proc[p].res \in NotLoginCodes

(* the record checkLogin's db.find returns to caller p at this step *)
ClRead(p) == Find(redis, proc[p].id, now)
ClBranches(p) ==
  /\ proc[p].pc = "cl_find"
  /\ proc'[p] # proc[p]
  /\ ClRead(p) # Null
KickedPath(p) ==
  /\ proc[p].pc \in {"cl_kfind", "cln_exists", "cln_del"}
  /\ proc[p].op \in {"checkLogin", "isLogin"}
  /\ proc'[p] # proc[p]
  /\ proc[p].pc = "cl_kfind" \/ proc[p].reason = "KICKED_OUT"
C27Step(p) ==
  /\ ClBranches(p) =>
       /\ ClRead(p).kicked => proc'[p].pc = "cl_kfind"
       /\ (ClRead(p).kicked \/ (ClRead(p).expireTime < now /\ ~ClRead(p).permanent))
            => /\ proc'[p].pc \in {"cl_kfind", "cln_exists"}
               /\ proc'[p].pc = "cln_exists" => proc'[p].reason = "LOGIN_EXPIRED"
  /\ KickedPath(p) =>
       /\ proc'[p].pc \in {"cln_exists", "cln_del", "idle"}
       /\ proc'[p].pc # "idle" => proc'[p].reason = "KICKED_OUT"
       /\ proc'[p].pc = "idle" =>
            /\ proc'[p].res \in {IsLoginResult("KICKED_OUT"), "KICKED_OUT", "StorageError"}
            /\ Emitted(proc[p], proc'[p]) \in {"KICKOUT_FEEDBACK", "none"}
            /\ proc'[p].res # "StorageError"
                 => Emitted(proc[p], proc'[p]) = "KICKOUT_FEEDBACK"

(* C27: checkLogin tests kicked, then expiry, then renewal: a record read *)
(* kicked (expired or not) takes the kicked path, which ends in KICKED_OUT *)
(* and KICKOUT_FEEDBACK (or in a failed delete), never in LOGIN_EXPIRED or *)
(* EXPIRED; a record read kicked or expired and not permanent never goes   *)
(* to renew.                                                              *)
C27_KickedExpiredRenewOrder == [][\A p \in Procs : C27Step(p)]_vars
C27_Witness ==
  \E p \in Procs :
    /\ proc[p].op = "checkLogin" /\ proc[p].pc = "cl_kfind"
    /\ HExists(redis, proc[p].id)
    /\ Find(redis, proc[p].id, now).kicked
    /\ Find(redis, proc[p].id, now).expireTime < now
    /\ ~Find(redis, proc[p].id, now).permanent

(* the store-level deadlines of the three keys of id: the session hash,   *)
(* the context hash when it exists, the reverse key of the stored token   *)
Deadlines(id) ==
  {redis.httl[id]}
    \cup (IF CExists(redis, id) THEN {redis.cttl[id]} ELSE {})
    \cup (IF Fld(redis.hash[id], "token", NoToken) \in Tokens
             /\ redis.rev[Fld(redis.hash[id], "token", NoToken)] # NoId
          THEN {redis.rttl[Fld(redis.hash[id], "token", NoToken)]} ELSE {})

(* C28: while the stored record of an id is permanent, its session hash,  *)
(* its context hash and the reverse key of its token carry no TTL.        *)
C28_PermanentNoTTL ==
  \A id \in Ids :
    (HExists(redis, id) /\ Fld(redis.hash[id], "permanent", FALSE) = TRUE)
      => Deadlines(id) = {NoTTL}

(* the stored record of id is not permanent *)
NonPermanentStored(id) ==
  HExists(redis, id) /\ Fld(redis.hash[id], "permanent", FALSE) = FALSE

(* C29: the session hash of a non-permanent record and the reverse key of *)
(* its token are never without a TTL and their deadlines never diverge    *)
(* (both being expireTime plus the grace period).                         *)
C29_DeadlinesAgree ==
  \A id \in Ids :
    NonPermanentStored(id) =>
      /\ redis.httl[id] # NoTTL
      /\ Deadlines(id) \ {redis.cttl[id]} = {redis.httl[id]}

(* C30: whenever the context hash of a non-permanent stored record        *)
(* exists, it carries the store-level deadline of the session hash.       *)
C30_ContextFollowsSession ==
  \A id \in Ids :
    (NonPermanentStored(id) /\ CExists(redis, id))
      => redis.cttl[id] = redis.httl[id]

(* the fields a partial update of VerifierLogic passes to db.update *)
PartialOps == {"kickout", "disable", "enable", "permanent", "nonPermanent"}
Designated(op) ==
  CASE op = "kickout" -> {"kicked"}
    [] op \in {"disable", "enable"} -> {"disabled", "duration"}
    [] op \in {"permanent", "nonPermanent"} -> {"permanent"}
    [] OTHER -> {}
RecordFields ==
  {"token", "expireTime", "renewCount", "disabled", "duration", "kicked", "permanent"}
(* caller p's partial update executes its MULTI at this step *)
PartialCommits(p) ==
  /\ proc[p].pc = "upd_exec" /\ proc[p].op \in PartialOps
  /\ proc'[p].pc = "idle"
SameField(h1, h2, f) ==
  /\ (f \in DOMAIN h1) = (f \in DOMAIN h2)
  /\ f \in DOMAIN h1 => h1[f] = h2[f]

(* C31: the MULTI of kickout, disable, enable, permanent and nonPermanent  *)
(* changes only the designated fields of the stored record and leaves the *)
(* record in the store.                                                   *)
C31_PartialUpdateFrame ==
  [][\A p \in Procs : PartialCommits(p) =>
       /\ \A f \in RecordFields \ Designated(proc[p].op) :
            SameField(redis.hash[proc[p].id], redis'.hash[proc[p].id], f)
       /\ HExists(redis, proc[p].id) => HExists(redis', proc[p].id)]_vars

(* checkLogin's find returns to caller p a record that passes the kicked  *)
(* and the expiry test                                                    *)
PassesAtFind(p) ==
  /\ ReadsAtFind(p)
  /\ ~Reading(p).kicked
  /\ ~(Reading(p).expireTime < now /\ ~Reading(p).permanent)
(* the record is due for renewal: expireTime - now below the threshold *)
RenewDue(u, t) == u.expireTime - t < TokenRenewCondition
(* the steps of the renew inside caller p's checkLogin *)
ImplicitRenew(p) ==
  /\ proc[p].op = "checkLogin" /\ Moves(p)
  /\ proc[p].pc \in {"rn_find", "upd_exec"}
C32Step(p) ==
  /\ PassesAtFind(p) =>
       IF RenewDue(Reading(p), now)
       THEN proc'[p].pc = "rn_find"
       ELSE proc'[p].pc = "idle" /\ proc'[p].res = "ok"
  /\ (ImplicitRenew(p) /\ proc[p].pc = "rn_find" /\ Reading(p) # Null) =>
       /\ proc'[p].pc = "upd_find"
       /\ proc'[p].vals = [Reading(p) EXCEPT
                             !.renewCount = Add(Reading(p).renewCount, 1),
                             !.expireTime = Reading(p).expireTime + TokenRenew]
  /\ (ImplicitRenew(p) /\ proc[p].pc = "upd_exec") =>
       /\ proc'[p].pc = "idle" /\ proc'[p].res = "ok"
       /\ HExists(redis', proc[p].id)
       /\ Find(redis', proc[p].id, now') = proc[p].vals

(* C32: a checkLogin whose record passes the kicked and expiry tests goes *)
(* to renew exactly when expireTime - now is below the threshold and      *)
(* returns at once otherwise; its renew writes the record it read with    *)
(* renewCount + 1 and expireTime + tokenRenew, once, and after it the     *)
(* record is stored and readable, permanent and long expired or not.      *)
C32_ImplicitRenewOnce == [][\A p \in Procs : C32Step(p)]_vars
C32_Witness ==
  \E p \in Procs :
    /\ proc[p].op = "checkLogin" /\ proc[p].pc = "idle" /\ proc[p].res = "ok"
    /\ calls = 3 /\ \A q \in Procs \ {p} : proc[q].op = "none"
    /\ HExists(redis, proc[p].id)
    /\ Find(redis, proc[p].id, now).permanent
    /\ Find(redis, proc[p].id, now).renewCount = 1
    /\ Find(redis, proc[p].id, now).expireTime - TokenRenew < now

(* caller p runs the finally of an autoLock whose function threw, or of a *)
(* deleteFull whose scan threw                                            *)
InFinally(p) == lproc[p].pc \in {"rel_err", "df_rel_err"} /\ lproc'[p] # lproc[p]
C33Step(p) ==
  InFinally(p) =>
    /\ lproc'[p].pc = "idle"
    /\ lproc[p].pc = "rel_err" =>
         /\ ~KeyExists(lstore'.lock[lproc[p].id])
         /\ lproc'[p].res = "FnError"
    /\ lproc[p].pc = "df_rel_err" =>
         /\ ~KeyExists(lstore'.full)
         /\ lproc'[p].res = "StorageError"

FullHolding(p) == lproc[p].pc \in {"df_scan", "df_rel", "df_rel_err"}
(* caller p makes one SET NX PX of acquireFullLock's loop in this step *)
FullAttempt(p) ==
  /\ lproc'[p] # lproc[p]
  /\ \/ LIdle(p) /\ lproc'[p].op = "deleteFull"
     \/ LAt(p, "df_poll")

(* C34 (as stated): at most one caller is between its acquireFullLock and *)
(* its release.                                                           *)
C34_OneFullHolder ==
  \A p, q \in Procs : (FullHolding(p) /\ FullHolding(q)) => p = q

C34Step(p) ==
  /\ FullAttempt(p) =>
       /\ KeyExists(lstore.full) => ~FullHolding(p)'
       /\ FullHolding(p)' => KeyExists(lstore'.full)
       /\ lproc'[p].pc = "idle" =>
            /\ lproc'[p].res = "LOCK_TIMEOUT"
            /\ lclock - lproc[p].start >= AcquireTimeout
  /\ (LAt(p, "df_rel") /\ lproc'[p] # lproc[p]) => ~KeyExists(lstore'.full)
  /\ (LIdle(p) /\ lproc'[p] # lproc[p] /\ lproc'[p].op = "autoLock") =>
       (lproc'[p].res = "SYSTEM_MUTEX") = KeyExists(lstore.full)

(* C34 (amended): while the store-wide key exists no acquireFullLock      *)
(* succeeds, and one that has polled for acquireTimeout fails with the    *)
(* timeout; a successful one sets the key; checkFullLock is true exactly  *)
(* while the key exists; after a release the key is absent.               *)
C34_FullLockWhileKeyExists == [][\A p \in Procs : C34Step(p)]_vars
C34_Witness ==
  \E p, q \in Procs :
    /\ lproc[p].op = "deleteFull" /\ lproc[p].pc = "idle"
    /\ lproc[p].res = "LOCK_TIMEOUT"
    /\ FullHolding(q) /\ KeyExists(lstore.full)

(* every caller has finished: none is inside acquireLock, autoLock or     *)
(* deleteFull                                                             *)
AllFinished == \A p \in Procs : LIdle(p)

(* C35: once every caller has finished, the lock key of each id is absent *)
(* and its wait queue is empty.                                           *)
C35_NoLeftoverTicket ==
  AllFinished =>
    \A id \in Ids : ~KeyExists(lstore.lock[id]) /\ lstore.queue[id] = <<>>

(* a login of caller p returns in this step *)
LoginReturns(p) ==
  /\ Idle(p) /\ proc'[p] # proc[p]
  /\ proc'[p].op = "login" /\ proc'[p].res = "ok"

(* C36: when a login of an id returns, the context of the id is empty.    *)
C36_LoginEmptiesContext ==
  [][\A p \in Procs : LoginReturns(p) => Ctx(redis', proc'[p].id) = Null]_vars

(* the stored record of caller p's id is kicked when p's renew commits *)
RenewOverKicked(p) ==
  /\ proc[p].pc = "upd_exec" /\ Moves(p)
  /\ "renewCount" \in DOMAIN proc[p].vals
  /\ HExists(redis, proc[p].id)
  /\ Reading(p).kicked
  /\ Reading(p).token = proc[p].vals.token

(* C37: a renew (direct, or inside checkLogin) that commits after a       *)
(* kickout of the same session has committed leaves the record kicked.    *)
C37_KickoutSurvivesRenew ==
  [][\A p \in Procs :
       RenewOverKicked(p) => Find(redis', proc[p].id, now').kicked]_vars

(* the MULTI of an update of caller p runs in this step on an id whose    *)
(* session hash is no longer stored                                       *)
UpdateAfterDelete(p) ==
  /\ proc[p].pc = "upd_exec" /\ Moves(p)
  /\ ~HExists(redis, proc[p].id)

(* C38: an update whose batch runs after the session hash of its id was   *)
(* deleted leaves no session hash for the id.                             *)
C38_UpdateNeverCreates ==
  [][\A p \in Procs :
       UpdateAfterDelete(p) => ~HExists(redis', proc[p].id)]_vars

(* caller p runs releaseLock in this step *)
Releases(p) == LAt(p, "rel") /\ lproc'[p] # lproc[p]
C39Step(p) ==
  Releases(p) =>
    LET id == lproc[p].id
    IN /\ KeyExists(lstore.lock[id]) => lstore.lock[id].val = lproc[p].ticket
       /\ lstore.queue[id] # <<>>
       /\ Head(lstore.queue[id]) = lproc[p].ticket
       /\ lstore'.queue[id] = Tail(lstore.queue[id])

C40_ReverseLookupTyped ==
  tres.res # <<>> => tstore[tres.token][1] = tres.type \o "_LOGIN"
====
